---- MODULE Spec2Model ----
(***************************************************************************)
(* examples/defi-metrics/cocoindex/flow.py                                 *)
(*                                                                         *)
(* The file is a module docstring (lines 1-10), a blank line (11) and a    *)
(* block of comment lines (12-38) that outlines a CocoIndex flow in        *)
(* pseudo-code.  Two systems are modelled over one set of variables:       *)
(*                                                                         *)
(*   Spec / LiveSpec  the file as it is: the Python loader executes the    *)
(*                    module body once, in an arbitrary environment.       *)
(*   OutlineSpec      the flow the comment block outlines, read as if the  *)
(*                    leading "# " were stripped: the module is loaded and *)
(*                    the registered flow fetches, collects and exports.   *)
(***************************************************************************)
EXTENDS Integers, Sequences, FiniteSets, TLC

VARIABLES
    pc,         \* "start" | "loaded" | "error": position of the module load
    namespace,  \* names the module body has bound
    flows,      \* flow names registered with the framework (flow_def)
    calls,      \* external interfaces invoked so far
    env,        \* environment: what is installed / reachable
    raw,        \* scope["raw"]: rows the HTTP-JSON source has delivered
    collected,  \* rows handed to the collector `metrics`
    exported,   \* how many collected rows the export target has applied
    table       \* contents of the Postgres table defi_metrics

vars == <<pc, namespace, flows, calls, env, raw, collected, exported, table>>

(***************************************************************************)
(* Bounds of the model.                                                    *)
(***************************************************************************)
MaxProtocols == 2
MaxMarkets == 2
MaxVariant == 2
MaxRows == 2
MaxTableRows == 2

(***************************************************************************)
(* The text of the file, line by line.                                     *)
(***************************************************************************)
NumLines == 38

\* The file with lines 14-38 uncommented ("# " stripped); see OutlineKind.
LineKindUncommented(n) ==
    IF n <= 10 THEN "docstring"
    ELSE IF n \in {11, 13, 15, 33} THEN "blank"
    ELSE IF n \in {12, 21} THEN "comment"
    ELSE IF n = 14 THEN "import"
    ELSE IF n \in {16, 17} THEN "def"
    ELSE "body"

\* The file with only the import of line 14 uncommented.
LineKindImportLive(n) ==
    IF n <= 10 THEN "docstring"
    ELSE IF n = 11 THEN "blank"
    ELSE IF n = 14 THEN "import"
    ELSE "comment"

\* The file with the decorated def (lines 16-38) uncommented, the import not.
LineKindDefLive(n) ==
    IF n <= 10 THEN "docstring"
    ELSE IF n \in {11, 33} THEN "blank"
    ELSE IF n \in {16, 17} THEN "def"
    ELSE IF n >= 18 /\ n # 21 THEN "body"
    ELSE "comment"

\* What line n of the file is to the Python tokenizer.
LineKind(n) ==
    IF n <= 10 THEN "docstring"
    ELSE IF n = 11 THEN "blank"
    ELSE "comment"

\* What comment line n holds once its leading "# " is stripped.
OutlineKind(n) ==
    IF n <= 10 THEN "docstring"
    ELSE IF n \in {11, 13, 15, 33} THEN "blank"
    ELSE IF n \in {12, 21} THEN "comment"
    ELSE IF n = 14 THEN "import"
    ELSE IF n \in {16, 17} THEN "def"
    ELSE "body"

\* The lines of the file, and of the outline.
FileLines == [n \in 1..NumLines |-> LineKind(n)]

OutlineLines == [n \in 1..NumLines |-> OutlineKind(n)]

\* The module-level statements among the first n of the classified lines:
\* a statement starts on a docstring, import or def line that does not
\* continue the line before it; blank, comment and (indented) body lines
\* start no module-level statement.
RECURSIVE StmtsUpTo(_, _)
StmtsUpTo(lines, n) ==
    IF n = 0 THEN <<>>
    ELSE LET before == StmtsUpTo(lines, n - 1)
             starts == /\ lines[n] \in {"docstring", "import", "def"}
                       /\ (n = 1 \/ lines[n - 1] # lines[n])
         IN  IF starts THEN Append(before, lines[n]) ELSE before

\* The statements of the outline, were it code.
OutlineBody == StmtsUpTo(OutlineLines, NumLines)

\* The whole outline taken as the module body.
ModuleBodyUncommented == OutlineBody

\* The statements of the file as it is.
ModuleBody == StmtsUpTo(FileLines, NumLines)

FlowName == "SolanaDefiMetrics"

(***************************************************************************)
(* Executing module-level statements (Python semantics).                   *)
(***************************************************************************)
\* One statement, on interpreter state st = [ns, flows, calls, err].
ExecStmt(stmt, st, e) ==
    CASE stmt = "docstring" ->
            [st EXCEPT !.ns = @ \cup {"__doc__"}]
      [] stmt = "import" ->
            IF e.cocoindexInstalled
            THEN [st EXCEPT !.ns = @ \cup {"cocoindex"},
                            !.calls = @ \cup {"import cocoindex"}]
            ELSE [st EXCEPT !.err = "ModuleNotFoundError"]
      [] stmt = "def" ->
            IF "cocoindex" \in st.ns
            THEN [st EXCEPT !.ns = @ \cup {"flow"},
                            !.flows = @ \cup {FlowName},
                            !.calls = @ \cup {"cocoindex.flow_def"}]
            ELSE [st EXCEPT !.err = "NameError"]

\* The statements in order; the first exception ends the execution.
RECURSIVE ExecBody(_, _, _)
ExecBody(body, st, e) ==
    IF body = <<>> \/ st.err # "none" THEN st
    ELSE ExecBody(Tail(body), ExecStmt(Head(body), st, e), e)

\* Loading a module whose body is `body`: one execution of the body.
LoadBody(body) ==
    /\ pc = "start"
    /\ LET st == ExecBody(body,
                          [ns |-> namespace, flows |-> flows,
                           calls |-> calls, err |-> "none"],
                          env)
       IN  /\ namespace' = st.ns
           /\ flows' = st.flows
           /\ calls' = st.calls
           /\ pc' = IF st.err = "none" THEN "loaded" ELSE "error"
    /\ UNCHANGED <<env, raw, collected, exported, table>>

\* Loading flow.py.
Load == LoadBody(ModuleBody)

\* Loading the outline, were it code.
OutlineLoad == LoadBody(OutlineBody)

(***************************************************************************)
(* Rows.                                                                   *)
(***************************************************************************)
\* The protocols the docstring names as sources.
ProtocolNames ==
    <<"Solend", "Kamino", "Meteora", "Drift", "Jito", "Marinade", "Jupiter">>

Protocols ==
    {ProtocolNames[i] : i \in 1..(IF MaxProtocols < 7 THEN MaxProtocols ELSE 7)}

Markets == 1..MaxMarkets

\* The fields the outline reads from a raw source row.
RawFields ==
    {"protocol", "market", "tvl_usd", "liquidity_usd", "price_vol_5m_bps",
     "borrow_utilization_bps", "source_url", "updated_at"}

\* A raw row of the HTTP-JSON source.  The variant v stands for one reading
\* of a market: it gives every other field a value that differs from field
\* to field and from variant to variant.
RawRow(p, m, v) ==
    [protocol |-> p, market |-> m,
     tvl_usd |-> 10 * v + 1, liquidity_usd |-> 10 * v + 2,
     price_vol_5m_bps |-> 10 * v + 3, borrow_utilization_bps |-> 10 * v + 4,
     source_url |-> 10 * v + 5, updated_at |-> 10 * v + 6]

RawRows == {RawRow(p, m, v) : p \in Protocols, m \in Markets, v \in 1..MaxVariant}

\* metrics.collect(...) with tvl_usd and liquidity_usd crossed.
NormalizeCrossed(row) ==
    [chain |-> "solana",
     protocol |-> row["protocol"],
     market |-> row["market"],
     tvl_usd |-> row["liquidity_usd"],
     liquidity_usd |-> row["tvl_usd"],
     price_vol_5m_bps |-> row["price_vol_5m_bps"],
     borrow_utilization_bps |-> row["borrow_utilization_bps"],
     source_url |-> row["source_url"],
     updated_at |-> row["updated_at"]]

\* The keyword arguments of metrics.collect(...): the row that is collected.
Normalize(row) ==
    [chain |-> "solana",
     protocol |-> row["protocol"],
     market |-> row["market"],
     tvl_usd |-> row["tvl_usd"],
     liquidity_usd |-> row["liquidity_usd"],
     price_vol_5m_bps |-> row["price_vol_5m_bps"],
     borrow_utilization_bps |-> row["borrow_utilization_bps"],
     source_url |-> row["source_url"],
     updated_at |-> row["updated_at"]]

\* primary_key_fields with source_url added to it.
PrimaryKeyWithUrl == <<"chain", "protocol", "market", "source_url">>

\* primary_key_fields of the export.
PrimaryKeyFields == <<"chain", "protocol", "market">>

KeyOf(r) == [i \in 1..Len(PrimaryKeyFields) |-> r[PrimaryKeyFields[i]]]

\* The export target applies a row under the primary key: the row replaces
\* the row of the same key, if there is one.
Upsert(tbl, r) == {x \in tbl : KeyOf(x) # KeyOf(r)} \cup {r}

(***************************************************************************)
(* The environment, and the states the table can be in before the load.    *)
(***************************************************************************)
Envs ==
    [cocoindexInstalled : BOOLEAN, postgresReachable : BOOLEAN,
     urlsAvailable : BOOLEAN]

\* Rows a sidecar may have written to defi_metrics.
TableRows ==
    {[chain |-> "solana", protocol |-> r.protocol, market |-> r.market,
      tvl_usd |-> r.tvl_usd, liquidity_usd |-> r.liquidity_usd,
      price_vol_5m_bps |-> r.price_vol_5m_bps,
      borrow_utilization_bps |-> r.borrow_utilization_bps,
      source_url |-> r.source_url, updated_at |-> r.updated_at] : r \in RawRows}

SameTriple(a, b) ==
    a.chain = b.chain /\ a.protocol = b.protocol /\ a.market = b.market

\* The tables of at most k rows, no two of them with the same triple.
RECURSIVE TablesUpTo(_)
TablesUpTo(k) ==
    IF k = 0 THEN {{}}
    ELSE LET prev == TablesUpTo(k - 1)
         IN  prev \cup {t \cup {r} : <<t, r>> \in
                          {x \in prev \X TableRows :
                              \A y \in x[1] : ~SameTriple(y, x[2])}}

(***************************************************************************)
(* The file as it is.                                                      *)
(***************************************************************************)
Init ==
    /\ pc = "start"
    /\ namespace = {}
    /\ flows = {}
    /\ calls = {}
    /\ env \in Envs
    /\ raw = <<>>
    /\ collected = <<>>
    /\ exported = 0
    /\ table \in TablesUpTo(MaxTableRows)

Next == Load

Spec == Init /\ [][Next]_vars

\* The loader runs the module body it was asked to load.
LiveSpec == Spec /\ WF_vars(Load)

(***************************************************************************)
(* The outlined flow.                                                      *)
(***************************************************************************)
FlowRegistered == pc = "loaded" /\ FlowName \in flows

\* scope["raw"] = flow_builder.add_source(HttpJson(urls=[...])): the source
\* delivers one more row.
Fetch ==
    /\ FlowRegistered
    /\ env.urlsAvailable
    /\ Len(raw) < MaxRows
    /\ \E r \in RawRows : raw' = Append(raw, r)
    /\ calls' = calls \cup {"cocoindex.sources.HttpJson"}
    /\ UNCHANGED <<pc, namespace, flows, env, collected, exported, table>>

\* with scope["raw"].row() as row: metrics.collect(...), for the next row.
Collect ==
    /\ FlowRegistered
    /\ Len(collected) < Len(raw)
    /\ collected' = Append(collected, Normalize(raw[Len(collected) + 1]))
    /\ UNCHANGED <<pc, namespace, flows, calls, env, raw, exported, table>>

\* metrics.export("defi_metrics", Postgres(), primary_key_fields=[...]):
\* the target applies the next collected row.
Export ==
    /\ FlowRegistered
    /\ env.postgresReachable
    /\ exported < Len(collected)
    /\ table' = Upsert(table, collected[exported + 1])
    /\ exported' = exported + 1
    /\ calls' = calls \cup {"cocoindex.targets.Postgres"}
    /\ UNCHANGED <<pc, namespace, flows, env, raw, collected>>

OutlineInit ==
    /\ pc = "start"
    /\ namespace = {}
    /\ flows = {}
    /\ calls = {}
    /\ env \in Envs
    /\ raw = <<>>
    /\ collected = <<>>
    /\ exported = 0
    /\ table = {}

OutlineNext == OutlineLoad \/ Fetch \/ Collect \/ Export

OutlineSpec == OutlineInit /\ [][OutlineNext]_vars

(***************************************************************************)
(* Properties of the file as it is.                                        *)
(***************************************************************************)
\* C1: loading flow.py executes no logic.  Every step of the system is the
\* one load step, from "start" to "loaded"; under the loader's fairness the
\* load terminates; and in every reachable state no flow is defined, no
\* source row has been added, no row has been collected and nothing has been
\* exported.
LoadExecutesNoLogic ==
    /\ [][pc = "start" /\ pc' = "loaded"]_vars
    /\ <>(pc = "loaded")
    /\ [](flows = {} /\ raw = <<>> /\ collected = <<>> /\ exported = 0)

LoadedNothingDefined ==
    /\ pc = "loaded"
    /\ flows = {}
    /\ raw = <<>> /\ collected = <<>> /\ exported = 0
    /\ env.cocoindexInstalled

\* C2: no external interface is ever invoked (not the framework import, not
\* flow_def, not the HTTP-JSON source, not the Postgres target), and every
\* step leaves the table defi_metrics and the environment as they were.
NoExternalInterfaceInvoked ==
    /\ [](calls = {})
    /\ [][table' = table /\ env' = env]_vars

LoadedTableUntouched ==
    /\ pc = "loaded"
    /\ calls = {}
    /\ Cardinality(table) = MaxTableRows
    /\ env.postgresReachable

\* C3: the module binds no name but its docstring, so none of the nine row
\* fields is defined; and the code builds, collects or persists no row.
RowFields == RawFields \cup {"chain"}

NoRowFieldDefined ==
    /\ namespace \subseteq {"__doc__"}
    /\ namespace \cap RowFields = {}
    /\ (pc = "loaded" => namespace = {"__doc__"})
    /\ raw = <<>> /\ collected = <<>> /\ exported = 0

LoadedOnlyDocstringBound ==
    /\ pc = "loaded"
    /\ namespace = {"__doc__"}
    /\ env.cocoindexInstalled

\* C4: the load never reaches the error state, and it can be taken from
\* every start state, whatever the environment is.
LoadNeverFails ==
    /\ pc # "error"
    /\ (pc = "start" => ENABLED Load)

LoadedInHostileEnvironment ==
    /\ pc = "loaded"
    /\ ~env.cocoindexInstalled
    /\ ~env.postgresReachable
    /\ ~env.urlsAvailable

====
